---- MODULE Spec2Model ----
(***************************************************************************)
(* A model of gpp4323.py: the GPP4323 device (lock, transport, wait()),    *)
(* its Channel operations and the Measurement snapshot.                    *)
(*                                                                         *)
(* Every operation of the library is the sequence of steps its method      *)
(* body performs (a transport write, a transport read with the handling    *)
(* of the match, a call of wait(), a raise); a thread executes one step    *)
(* at a time, so that threads interleave between any two transport         *)
(* accesses exactly where the lock allows it.                              *)
(***************************************************************************)
EXTENDS Integers, Sequences, FiniteSets, TLC

VARIABLES
    lock,     \* GPP4323.lock, the RLock: [owner, count]
    dev,      \* the GPP4323 object: [state, s, manufacturer, model, serial, version]
    rx,       \* GPP4323.file, incoming side: reply lines not yet read
    data,     \* Measurement.data of the shared Measurement object
    st,       \* per thread: "idle", "acquire", "run", "done"
    op,       \* per thread: the method being executed
    args,     \* per thread: its arguments
    pc,       \* per thread: index of the next step of the method body
    wpc,      \* per thread: position inside wait(): "none", "opc", "esr", "val"
    tries,    \* per thread: wait()'s local `tries`
    vals,     \* per thread: the values `val` took in the current wait()
    loc,      \* per thread: the method's local result (rv)
    result,   \* per thread: "none", "ok" or the exception that ended the method
    io,       \* per thread: the transport accesses of the current method, in
              \* order: [d |-> "w" or "r", l |-> the line written or read]
    out,      \* the instrument: the output flag of each channel
    prev      \* per thread: the call it made before the current one, and
              \* how that call ended

vars == <<lock, dev, rx, data, st, op, args, pc, wpc, tries, vals, loc, result, io,
          out, prev>>

Threads == {"t1", "t2"}

\* Python's None; an absent optional argument, a failed re.search.
None == <<>>

-----------------------------------------------------------------------------
(* Bounds of the inputs.                                                   *)

\* the longest group list of a sequence() configuration
MaxGroups == 2
\* the largest number of channels a :MEAS? reply reports
MaxMeas == 4

-----------------------------------------------------------------------------
(* Text: formatting of values into command lines, and the parsing of       *)
(* reply lines.  Lines are strings without the trailing newline.           *)

\* str(float) of a float with an integral value, as an f-string prints it
FloatStr(v) == ToString(v) \o ".0"

\* a reading with three decimals, in thousandths: 1234 is "1.234"
Pad3(m) == IF m < 10 THEN "00" \o ToString(m)
           ELSE IF m < 100 THEN "0" \o ToString(m) ELSE ToString(m)

Milli3(m) == ToString(m \div 1000) \o "." \o Pad3(m % 1000)

\* the readings and status-register values the instrument's replies are made of
Readings == {500, 617, 1000, 1234, 5000}

EsrRange == 0..255

IntLines == {ToString(v) : v \in EsrRange}

FloatLines == {Milli3(m) : m \in Readings}

\* int(s) of a line of digits
int(s) == CHOOSE v \in EsrRange : ToString(v) = s

\* float(s) of a reading, in thousandths
float(s) == CHOOSE m \in Readings : Milli3(m) = s

\* one channel's triple of a :MEAS? reply, and the whole reply
Triples == {<<1234, 500, 617>>, <<5000, 1000, 5000>>}

TripleStr(tr) == Milli3(tr[1]) \o "," \o Milli3(tr[2]) \o "," \o Milli3(tr[3])

RECURSIVE JoinSemi(_)
JoinSemi(trs) ==
    IF Len(trs) = 1 THEN TripleStr(trs[1])
    ELSE TripleStr(trs[1]) \o ";" \o JoinSemi(Tail(trs))

MeasStructs == UNION {[1..k -> Triples] : k \in 1..MaxMeas}

MeasLines == {JoinSemi(m) : m \in MeasStructs}

\* a :MEAS? reply whose only triple lacks its third field
ShortMeasLine == "1.234,0.500"

\* rv.group(1).split(';') then split(','), of a well-formed reply
SplitMeas(s) == CHOOSE m \in MeasStructs : JoinSemi(m) = s

IdnFields == <<"GW Instek", "GPP-4323", "GEW123456", "V1.02">>

IdnLine == IdnFields[1] \o "," \o IdnFields[2] \o ",SN:" \o IdnFields[3] \o "," \o IdnFields[4]

Modes == {"IND", "CV", "CC", "CR"}

\* the patterns handed to _expect
PAT_TOK   == "(\\S+)"
PAT_INT   == "(\\d+)"
PAT_FLOAT == "([\\d\\.]+)"
PAT_MEAS  == "([0-9.,;]+)"
PAT_IDN   == "([^,]*),([^,]*),SN:([^,]*),([^,]*)"

\* re.search(pattern, s) on the reply lines of the model: the tuple of the
\* groups (group 1 first) or None.  The empty line matches no pattern.
re_search(pattern, s) ==
    CASE pattern = PAT_TOK   -> IF s # "" THEN <<s>> ELSE None
      [] pattern = PAT_INT   -> IF s \in IntLines THEN <<s>> ELSE None
      [] pattern = PAT_FLOAT -> IF s \in FloatLines \cup IntLines THEN <<s>> ELSE None
      [] pattern = PAT_MEAS  -> IF s \in MeasLines \cup {ShortMeasLine} THEN <<s>> ELSE None
      [] pattern = PAT_IDN   -> IF s = IdnLine THEN IdnFields ELSE None

\* val & bit # 0, for a single bit
\* (variant: the mask compared for equality, val == bit)
Bit_equal(val, bit) == val = bit

Bit(val, bit) == (val \div bit) % 2 = 1

-----------------------------------------------------------------------------
(* Exceptions.                                                             *)

E_SYNTAX   == "RuntimeError('command syntax error from supply')"
E_EXEC     == "RuntimeError('execution error from supply')"
E_DEVICE   == "RuntimeError('device error from supply')"
E_TIMEOUT  == "RuntimeError('supply never became ready')"
E_SOURCE   == "RuntimeError('supply failed to switch to source mode')"
E_LOAD(mode) == "RuntimeError('supply failed to switch to " \o mode \o " mode')"
E_VALUE    == "ValueError('supply can track only one of CV / CC / CR mode at a time')"
E_ATTR     == "AttributeError(\"'NoneType' object has no attribute 'group'\")"
E_TYPE     == "TypeError(\"'NoneType' object is not subscriptable\")"
E_INDEX    == "IndexError('list index out of range')"
E_GPP(e)   == "GPPException(" \o e \o ")"

-----------------------------------------------------------------------------
(* The steps a method body performs.                                       *)

\* self.gpp._sendline(l)
S(l) == [k |-> "send", l |-> l]
\* rv = self.gpp._expect(p), and what the method does with rv (h, x)
X(p, h, x) == [k |-> "expect", p |-> p, h |-> h, x |-> x]
\* self.gpp.wait()
W == [k |-> "wait"]
\* raise e
R(e) == [k |-> "raise", e |-> e]

\* return self.data
G == [k |-> "get"]

When(c, steps) == IF c THEN steps ELSE <<>>

Ch(n) == ToString(n)

Channels == 1..4

\* Monitor.TRIG_OUTOFF, TRIG_ALARM, TRIG_BEEPER
TRIG_OUTOFF == 1
TRIG_ALARM  == 2
TRIG_BEEPER == 4

OnOff(b) == IF b THEN "ON" ELSE "OFF"

\* Python truth of an optional tuple argument: None is false, a pair is true
Truthy(x) == x # None

\* Channel.disable
\* (variant: the command addressed to channel 1 whatever self.n is)
disable_ch1(n) == << S(":OUTP1:STAT OFF"), W >>

disable(n) == << S(":OUTP" \o Ch(n) \o ":STAT OFF"), W >>

\* Channel.enable
\* (variant: enable without its wait())
enable_nowait(n) == << S(":OUTP" \o Ch(n) \o ":STAT ON") >>

enable(n) == << S(":OUTP" \o Ch(n) \o ":STAT ON"), W >>

\* Channel.status: vars_of_interest, sent and parsed in order
status(n) ==
    << S(":MODE" \o Ch(n) \o "?"),      X(PAT_TOK,   "status", "mode"),
       S(":SOUR" \o Ch(n) \o ":CURR?"), X(PAT_FLOAT, "status", "current"),
       S(":SOUR" \o Ch(n) \o ":VOLT?"), X(PAT_FLOAT, "status", "voltage"),
       S(":LOAD" \o Ch(n) \o ":CV?"),   X(PAT_TOK,   "status", "load_cv"),
       S(":LOAD" \o Ch(n) \o ":CC?"),   X(PAT_TOK,   "status", "load_cc"),
       S(":LOAD" \o Ch(n) \o ":CR?"),   X(PAT_TOK,   "status", "load_cr"),
       S(":OUTP" \o Ch(n) \o ":STAT?"), X(PAT_TOK,   "status", "enabled") >>

\* Channel.set_source
\* (variant: the mode verified on channel 1 only)
set_source_ch1(n, voltage, current) ==
       << S("TRACK0") >>
    \o When(n = 1 \/ n = 2, << S(":LOAD" \o Ch(n) \o ":CC OFF") >>)
    \o << S(":SOUR" \o Ch(n) \o ":CURR " \o FloatStr(current)),
          S(":SOUR" \o Ch(n) \o ":VOLT " \o FloatStr(voltage)),
          W >>
    \o When(n = 1,
            << S(":MODE" \o Ch(n) \o "?"), X(PAT_TOK, "mode_is", "IND") >>)

set_source(n, voltage, current) ==
       << S("TRACK0") >>
    \o When(n = 1 \/ n = 2, << S(":LOAD" \o Ch(n) \o ":CC OFF") >>)
    \o << S(":SOUR" \o Ch(n) \o ":CURR " \o FloatStr(current)),
          S(":SOUR" \o Ch(n) \o ":VOLT " \o FloatStr(voltage)),
          W >>
    \o When(n = 1 \/ n = 2,
            << S(":MODE" \o Ch(n) \o "?"), X(PAT_TOK, "mode_is", "IND") >>)

\* Channel.set_load, its argument check; cv, cc, cr are None or <<value>>
\* (variant: the arguments tested for truth, so that 0 counts as absent)
LoadArgsInvalid_truthy(cv, cc, cr) ==
    LET set(x) == x # None /\ x[1] # 0 IN
    \/ (~set(cv) /\ ~set(cc) /\ ~set(cr))
    \/ (set(cv) /\ set(cc))
    \/ (set(cv) /\ set(cr))
    \/ (set(cc) /\ set(cr))

LoadArgsInvalid(cv, cc, cr) ==
    \/ (cv = None /\ cc = None /\ cr = None)
    \/ (cv # None /\ cc # None)
    \/ (cv # None /\ cr # None)
    \/ (cc # None /\ cr # None)

\* Channel.set_load, the local `mode` of the branch taken
\* (variant: the cr branch sets mode = 'CC')
LoadMode_pasted(cv, cc, cr) ==
    IF cv # None THEN "CV" ELSE "CC"

LoadMode(cv, cc, cr) ==
    IF cv # None THEN "CV" ELSE IF cc # None THEN "CC" ELSE "CR"

\* Channel.set_load
set_load(n, cv, cc, cr) ==
    IF LoadArgsInvalid(cv, cc, cr)
    THEN << R(E_VALUE) >>
    ELSE (IF cv # None
          THEN << S(":SOUR" \o Ch(n) \o ":VOLT " \o FloatStr(cv[1])),
                  S(":LOAD" \o Ch(n) \o ":CV on") >>
          ELSE IF cc # None
          THEN << S(":SOUR" \o Ch(n) \o ":CURR " \o FloatStr(cc[1])),
                  S(":LOAD" \o Ch(n) \o ":CC on") >>
          ELSE << S(":LOAD" \o Ch(n) \o ":RES " \o FloatStr(cr[1])),
                  S(":LOAD" \o Ch(n) \o ":CR on") >>)
         \o << W,
               S(":MODE" \o Ch(n) \o "?"),
               X(PAT_TOK, "mode_is", LoadMode(cv, cc, cr)) >>

\* Channel.is_load
\* (variant: the reply to the query left unread)
is_load_unread(n) == << S(":MODE" \o Ch(n) \o "?") >>

is_load(n) == << S(":MODE" \o Ch(n) \o "?"), X(PAT_TOK, "is_load", "") >>

\* (variant: the thresholds not consulted)
Arms_mask_only(current, voltage, power, trigger) == trigger # 0

\* Channel.monitor: if trigger and (current or voltage or power)
Arms(current, voltage, power, trigger) ==
    trigger # 0 /\ (Truthy(current) \/ Truthy(voltage) \/ Truthy(power))

\* Channel.monitor; current, voltage, power are None or <<comparator, value>>
monitor(n, current, voltage, power, trigger) ==
       << S(":MONI" \o Ch(n) \o ":STAT OFF") >>
    \o When(Truthy(current),
            << S(":MONI" \o Ch(n) \o ":CURR:COND " \o current[1] \o "C,AND"),
               S(":MONI" \o Ch(n) \o ":CURR:VAL " \o ToString(current[2])) >>)
    \o When(Truthy(voltage),
            << S(":MONI" \o Ch(n) \o ":VOLT:COND " \o voltage[1] \o "V,AND"),
               S(":MONI" \o Ch(n) \o ":VOLT:VAL " \o ToString(voltage[2])) >>)
    \o When(Truthy(power),
            << S(":MONI" \o Ch(n) \o ":POWER:COND " \o power[1] \o "P"),
               S(":MONI" \o Ch(n) \o ":POWER:VAL " \o ToString(power[2])) >>)
    \o When(~Truthy(current), << S(":MONI" \o Ch(n) \o ":CURR:COND NONE,NONE") >>)
    \o When(~Truthy(voltage), << S(":MONI" \o Ch(n) \o ":VOLT:COND NONE,NONE") >>)
    \o When(~Truthy(power),   << S(":MONI" \o Ch(n) \o ":POWER:COND NONE") >>)
    \o << S(":MONI" \o Ch(n) \o ":STOP BEEPER,ON"),
          S(":MONI" \o Ch(n) \o ":STOP OUTOFF," \o OnOff(Bit(trigger, TRIG_OUTOFF))),
          S(":MONI" \o Ch(n) \o ":STOP ALARM,"  \o OnOff(Bit(trigger, TRIG_ALARM))),
          S(":MONI" \o Ch(n) \o ":STOP BEEPER," \o OnOff(Bit(trigger, TRIG_BEEPER))),
          W >>
    \o When(Arms(current, voltage, power, trigger),
            << S(":MONI" \o Ch(n) \o ":STAT ON") >>)
    \o << W, S(":DISP:TYPE 1") >>

\* seq.cycles == True, for True (<<"bool", 1>>) and for an int (<<"int", c>>):
\* Python compares a bool and an int by value
EqTrue(cycles) == cycles[2] = 1

\* Channel.sequence; seq is [groups, start, end, cycles]
\* (variant: the sequence armed before the first wait())
sequence_arm_early(n, seq, active) ==
       << S(":SEQU" \o Ch(n) \o ":STAT OFF"),
          S(":SEQU" \o Ch(n) \o ":GROUP " \o ToString(Len(seq.groups))) >>
    \o [i \in 1..Len(seq.groups) |->
          S(":SEQU" \o Ch(n) \o ":PARA " \o ToString(i - 1) \o ","
              \o ToString(seq.groups[i][1]) \o "," \o ToString(seq.groups[i][2])
              \o "," \o ToString(seq.groups[i][3]))]
    \o << S(":SEQU" \o Ch(n) \o ":STAR " \o ToString(seq.start)),
          IF EqTrue(seq.cycles)
          THEN S(":SEQU" \o Ch(n) \o ":CYCLE I")
          ELSE S(":SEQU" \o Ch(n) \o ":CYCLE N," \o ToString(seq.cycles[2])),
          S(":SEQU" \o Ch(n) \o ":ENDS " \o ToString(seq.end)) >>
    \o When(active, << S(":SEQU" \o Ch(n) \o ":STAT ON") >>)
    \o << W >>
    \o When(active, << W >>)
    \o << S(":DISP:TYPE 1") >>

sequence(n, seq, active) ==
       << S(":SEQU" \o Ch(n) \o ":STAT OFF"),
          S(":SEQU" \o Ch(n) \o ":GROUP " \o ToString(Len(seq.groups))) >>
    \o [i \in 1..Len(seq.groups) |->
          S(":SEQU" \o Ch(n) \o ":PARA " \o ToString(i - 1) \o ","
              \o ToString(seq.groups[i][1]) \o "," \o ToString(seq.groups[i][2])
              \o "," \o ToString(seq.groups[i][3]))]
    \o << S(":SEQU" \o Ch(n) \o ":STAR " \o ToString(seq.start)),
          IF EqTrue(seq.cycles)
          THEN S(":SEQU" \o Ch(n) \o ":CYCLE I")
          ELSE S(":SEQU" \o Ch(n) \o ":CYCLE N," \o ToString(seq.cycles[2])),
          S(":SEQU" \o Ch(n) \o ":ENDS " \o ToString(seq.end)),
          W >>
    \o When(active, << S(":SEQU" \o Ch(n) \o ":STAT ON"), W >>)
    \o << S(":DISP:TYPE 1") >>

\* Channel.sequence_enable
sequence_enable(n, active) == << S(":SEQU" \o Ch(n) \o ":STAT " \o OnOff(active)) >>

\* GPP4323.alloff
alloff == << S("ALLOUTOFF") >>

\* Measurement.update; d is self.data, which the loop iterates once assigned
\* (variant: the channels queried from the last to the first)
update_descending(d) ==
       << S(":MEAS?"), X(PAT_MEAS, "meas", "") >>
    \o (IF d = None THEN <<>>
        ELSE [j \in 1..(2 * Len(d)) |->
                IF j % 2 = 1 THEN S(":MODE" \o Ch(Len(d) + 1 - (j + 1) \div 2) \o "?")
                ELSE X(PAT_TOK, "meas_mode", Len(d) + 1 - j \div 2)])

update(d) ==
       << S(":MEAS?"), X(PAT_MEAS, "meas", "") >>
    \o (IF d = None THEN <<>>
        ELSE [j \in 1..(2 * Len(d)) |->
                IF j % 2 = 1 THEN S(":MODE" \o Ch((j + 1) \div 2) \o "?")
                ELSE X(PAT_TOK, "meas_mode", j \div 2)])

\* GPP4323.__init__, the exchange inside its try block
__init__ ==
    << S("*IDN?"), X(PAT_IDN, "idn", ""),
       S("*CLS"), S(":SYST:CLE"), S(":STAT:QUE:ENAB (-440:+900)") >>

\* the method body of a call c = [op |-> ..., arguments]
Program(c, d) ==
    CASE c.op = "disable"         -> disable(c.n)
      [] c.op = "enable"          -> enable(c.n)
      [] c.op = "status"          -> status(c.n)
      [] c.op = "set_source"      -> set_source(c.n, c.voltage, c.current)
      [] c.op = "set_load"        -> set_load(c.n, c.cv, c.cc, c.cr)
      [] c.op = "is_load"         -> is_load(c.n)
      [] c.op = "monitor"         -> monitor(c.n, c.current, c.voltage, c.power, c.trigger)
      [] c.op = "sequence"        -> sequence(c.n, c.seq, c.active)
      [] c.op = "sequence_enable" -> sequence_enable(c.n, c.active)
      [] c.op = "alloff"          -> alloff
      [] c.op = "update"          -> update(d)
      [] c.op = "asDict"          -> << G >>
      [] c.op = "wait"            -> << W >>
      [] c.op = "__init__"        -> __init__
      [] OTHER                    -> <<>>

\* the methods wrapped by @_locked_gpp
\* (variant: status left undecorated)
LockedOps_no_status ==
    {"disable", "enable", "set_source", "set_load", "is_load", "monitor", "sequence",
     "update"}

LockedOps == {"disable", "enable", "status", "set_source", "set_load", "is_load",
              "monitor", "sequence", "update"}

-----------------------------------------------------------------------------
(* The instrument, as far as the library sees it: the reply line to each   *)
(* query, drawn from the input universe U of a specification.  A command   *)
(* has no reply.  An instrument that stays silent leaves the read to end   *)
(* with the empty line (the serial read timeout, or end of stream).        *)

ModeQueries == {":MODE" \o Ch(n) \o "?" : n \in Channels \cup (1..MaxMeas)}

FloatQueries == {":SOUR" \o Ch(n) \o q : n \in Channels, q \in {":CURR?", ":VOLT?"}}

FlagQueries == {":LOAD" \o Ch(n) \o q : n \in Channels, q \in {":CV?", ":CC?", ":CR?"}}
               \cup {":OUTP" \o Ch(n) \o ":STAT?" : n \in Channels}

\* the channel whose output flag line l asks for
OutQueries == {":OUTP" \o Ch(n) \o ":STAT?" : n \in Channels}

OutChannel(l) == CHOOSE n \in Channels : l = ":OUTP" \o Ch(n) \o ":STAT?"

\* the output flags after the instrument has executed line l
Applied(o, l) ==
    IF l = "ALLOUTOFF" THEN [n \in Channels |-> FALSE]
    ELSE [n \in Channels |->
            IF l = ":OUTP" \o Ch(n) \o ":STAT ON" THEN TRUE
            ELSE IF l = ":OUTP" \o Ch(n) \o ":STAT OFF" THEN FALSE
            ELSE o[n]]

\* the replies to line l; an instrument with output flags (U.outputs) reports
\* the flag it holds
Replies(l, U) ==
    CASE l = "*ESR?"        -> U.esr
      [] l \in OutQueries /\ U.outputs -> {OnOff(out[OutChannel(l)])}
      [] l = "*IDN?"        -> U.idn
      [] l = ":MEAS?"       -> U.meas
      [] l \in ModeQueries  -> U.modes
      [] l \in FloatQueries -> U.floats
      [] l \in FlagQueries  -> U.flags
      [] OTHER              -> {}

\* what arrives on the transport after line l was written: nothing, or one line
Arrives(l, U) ==
    IF Replies(l, U) = {} THEN {<<>>}
    ELSE {<<r>> : r \in Replies(l, U)} \cup (IF U.mute THEN {<<>>} ELSE {})

-----------------------------------------------------------------------------
(* The lock.                                                               *)

Unlocked == [owner |-> "none", count |-> 0]

\* threading.RLock: free, or already held by the caller
CanAcquire(lk, t) == lk.owner = "none" \/ lk.owner = t

Acquired(lk, t) == [owner |-> t, count |-> lk.count + 1]

\* k exits of `with lock` blocks by the owner
\* (variant: an exception passing through k blocks exits only the innermost)
Released_innermost(lk, k) ==
    IF lk.count - 1 <= 0 THEN Unlocked ELSE [lk EXCEPT !.count = lk.count - 1]

Released(lk, k) ==
    IF lk.count - k <= 0 THEN Unlocked ELSE [lk EXCEPT !.count = lk.count - k]

\* the `with` blocks thread t is inside: _locked_gpp's and wait()'s
Held(t) == (IF op[t] \in LockedOps /\ st[t] \in {"run"} THEN 1 ELSE 0)
           + (IF wpc[t] # "none" THEN 1 ELSE 0)

-----------------------------------------------------------------------------
(* Steps.                                                                  *)

Body(t) == Program(args[t], data)

Instr(t) == Body(t)[pc[t]]

Running(t) == st[t] = "run" /\ wpc[t] = "none" /\ pc[t] <= Len(Body(t))

IdleCall == [op |-> "idle"]

\* GPP4323(host=...) or GPP4323(sport=...)
Connect(via) == [op |-> "__init__", via |-> via]

\* self.s: a TCP socket, read through makefile() with no timeout set, or a
\* serial.Serial with timeout=2
Transport(via) == IF via = "host" THEN "socket" ELSE "serial"

\* a method is called: the caller enters _locked_gpp's inner, or a plain body
call(t, c) ==
    /\ st[t] = "idle"
    /\ IF c.op = "__init__"
       THEN /\ dev.state = "new" /\ t = "t1"
            /\ dev' = [dev EXCEPT !.s = Transport(c.via)]
       ELSE /\ dev.state = "connected"
            /\ UNCHANGED dev
    /\ st' = [st EXCEPT ![t] = IF c.op \in LockedOps THEN "acquire" ELSE "run"]
    /\ op' = [op EXCEPT ![t] = c.op]
    /\ args' = [args EXCEPT ![t] = c]
    /\ pc' = [pc EXCEPT ![t] = 1]
    /\ UNCHANGED <<lock, rx, data, wpc, tries, vals, loc, result, io, out, prev>>

\* _locked_gpp: with ref.gpp.lock
acquire(t) ==
    /\ st[t] = "acquire"
    /\ CanAcquire(lock, t)
    /\ lock' = Acquired(lock, t)
    /\ st' = [st EXCEPT ![t] = "run"]
    /\ UNCHANGED <<dev, rx, data, op, args, pc, wpc, tries, vals, loc, result, io, out, prev>>

\* the exception a method ends with: __init__ wraps it
Wrapped(t, e) == IF op[t] = "__init__" THEN E_GPP(e) ELSE e

\* an exception leaves wait() and the method: every `with` block is exited
Raise(t, e) ==
    /\ result' = [result EXCEPT ![t] = Wrapped(t, e)]
    /\ st' = [st EXCEPT ![t] = "done"]
    /\ wpc' = [wpc EXCEPT ![t] = "none"]
    /\ lock' = Released(lock, Held(t))

\* GPP4323._sendline: one line written; the instrument may answer it
Write(t, l, U) ==
    /\ io' = [io EXCEPT ![t] = Append(@, [d |-> "w", l |-> l])]
    /\ out' = IF U.outputs THEN Applied(out, l) ELSE out
    /\ \E a \in Arrives(l, U) : rx' = rx \o a

\* GPP4323._expect, the read: the next line, or the empty line
NextLine == IF rx = <<>> THEN "" ELSE Head(rx)

\* file.readline() by thread t
Read(t) ==
    /\ rx # <<>> \/ dev.s = "serial"
    /\ rx' = IF rx = <<>> THEN rx ELSE Tail(rx)
    /\ io' = [io EXCEPT ![t] = Append(@, [d |-> "r", l |-> NextLine])]

_sendline(t, U) ==
    /\ Running(t)
    /\ Instr(t).k = "send"
    /\ Write(t, Instr(t).l, U)
    /\ pc' = [pc EXCEPT ![t] = @ + 1]
    /\ UNCHANGED <<lock, dev, data, st, op, args, wpc, tries, vals, loc, result, prev>>

raise_(t) ==
    /\ Running(t)
    /\ Instr(t).k = "raise"
    /\ Raise(t, Instr(t).e)
    /\ UNCHANGED <<dev, rx, data, op, args, pc, tries, vals, loc, io, out, prev>>

\* what a method does with the match m of its _expect: the exception it
\* raises ("none" if none) and the values of rv, self.data and self
Handle(h, x, m, l, d, dv) ==
    LET keep == [exc |-> "none", loc |-> l, data |-> d, dev |-> dv] IN
    CASE h = "status" ->
            IF m = None THEN [keep EXCEPT !.exc = E_TYPE]
            ELSE [keep EXCEPT !.loc =
                    (CASE x = "mode" -> [mode |-> m[1]]
                       [] x = "current" -> [current |-> float(m[1])]
                       [] x = "voltage" -> [voltage |-> float(m[1])]
                       [] x = "load_cv" -> [load_cv |-> m[1] = "ON"]
                       [] x = "load_cc" -> [load_cc |-> m[1] = "ON"]
                       [] x = "load_cr" -> [load_cr |-> m[1] = "ON"]
                       [] x = "enabled" -> [enabled |-> m[1] = "ON"]) @@ l]
      [] h = "mode_is" ->
            IF m = None THEN [keep EXCEPT !.exc = E_ATTR]
            ELSE IF m[1] # x
                 THEN [keep EXCEPT !.exc = IF x = "IND" THEN E_SOURCE ELSE E_LOAD(x),
                                   !.loc = [rv |-> m[1]]]
                 ELSE [keep EXCEPT !.loc = [rv |-> m[1]]]
      [] h = "is_load" ->
            IF m = None THEN [keep EXCEPT !.exc = E_ATTR]
            ELSE [keep EXCEPT !.loc = [ret |-> m[1] = "CV" \/ m[1] = "CC" \/ m[1] = "CR"]]
      [] h = "meas" ->
            IF m = None THEN [keep EXCEPT !.exc = E_ATTR]
            ELSE IF m[1] = ShortMeasLine THEN [keep EXCEPT !.exc = E_INDEX]
            ELSE LET chs == SplitMeas(m[1]) IN
                 [keep EXCEPT !.data =
                    [chn \in 1..Len(chs) |->
                        [voltage |-> chs[chn][1], current |-> chs[chn][2],
                         power |-> chs[chn][3], channel |-> chn]]]
      [] h = "meas_mode" ->
            IF m = None THEN [keep EXCEPT !.exc = E_TYPE]
            ELSE [keep EXCEPT !.data = [d EXCEPT ![x] = [mode |-> m[1]] @@ @]]
      [] h = "idn" ->
            IF m = None THEN [keep EXCEPT !.exc = E_ATTR]
            ELSE [keep EXCEPT !.dev = [dv EXCEPT !.manufacturer = m[1], !.model = m[2],
                                                 !.serial = m[3], !.version = m[4]]]

\* rv = self._expect(pattern), then the method's handling of rv
_expect(t) ==
    /\ Running(t)
    /\ Instr(t).k = "expect"
    /\ Read(t)
    /\ LET m == re_search(Instr(t).p, NextLine)
           r == Handle(Instr(t).h, Instr(t).x, m, loc[t], data, dev)
       IN /\ loc' = [loc EXCEPT ![t] = r.loc]
          /\ data' = r.data
          /\ IF r.exc = "none"
             THEN /\ pc' = [pc EXCEPT ![t] = @ + 1]
                  /\ dev' = r.dev
                  /\ UNCHANGED <<lock, st, wpc, result>>
             ELSE /\ Raise(t, r.exc)
                  /\ dev' = IF op[t] = "__init__" THEN [dev EXCEPT !.state = "failed"] ELSE dev
                  /\ UNCHANGED pc
    /\ UNCHANGED <<op, args, tries, vals, out, prev>>

\* (variant: bit 0x01 tested before the fatal bits)
EsrStep_break_first(val, tr) ==
    IF Bit(val, 1) THEN [exc |-> "none", brk |-> TRUE, tries |-> tr]
    ELSE IF Bit(val, 32) THEN [exc |-> E_SYNTAX, brk |-> FALSE, tries |-> tr]
    ELSE IF Bit(val, 16) THEN [exc |-> E_EXEC, brk |-> FALSE, tries |-> tr]
    ELSE IF Bit(val, 8) THEN [exc |-> E_DEVICE, brk |-> FALSE, tries |-> tr]
    ELSE [exc |-> "none", brk |-> FALSE, tries |-> tr - 1]

\* (variant: tries decremented before the test of bit 0x01)
EsrStep_count_first(val, tr) ==
    IF Bit(val, 32) THEN [exc |-> E_SYNTAX, brk |-> FALSE, tries |-> tr]
    ELSE IF Bit(val, 16) THEN [exc |-> E_EXEC, brk |-> FALSE, tries |-> tr]
    ELSE IF Bit(val, 8) THEN [exc |-> E_DEVICE, brk |-> FALSE, tries |-> tr]
    ELSE IF Bit(val, 1) THEN [exc |-> "none", brk |-> TRUE, tries |-> tr - 1]
    ELSE [exc |-> "none", brk |-> FALSE, tries |-> tr - 1]

\* the loop body of wait() after val was read, with `tries` at tr: the
\* exception raised ("none" if none), whether the loop breaks, and tries after
EsrStep(val, tr) ==
    IF Bit(val, 32) THEN [exc |-> E_SYNTAX, brk |-> FALSE, tries |-> tr]
    ELSE IF Bit(val, 16) THEN [exc |-> E_EXEC, brk |-> FALSE, tries |-> tr]
    ELSE IF Bit(val, 8) THEN [exc |-> E_DEVICE, brk |-> FALSE, tries |-> tr]
    ELSE IF Bit(val, 1) THEN [exc |-> "none", brk |-> TRUE, tries |-> tr]
    ELSE [exc |-> "none", brk |-> FALSE, tries |-> tr - 1]

\* wait(): with self.lock
wait_enter(t) ==
    /\ Running(t)
    /\ Instr(t).k = "wait"
    /\ CanAcquire(lock, t)
    /\ lock' = Acquired(lock, t)
    /\ wpc' = [wpc EXCEPT ![t] = "opc"]
    /\ UNCHANGED <<dev, rx, data, st, op, args, pc, tries, vals, loc, result, io, out, prev>>

\* wait(): tries = 5
\* (variant: one attempt more)
TRIES_six == 5 + 1

TRIES == 5

\* wait(): self._sendline("*OPC"); tries = 5
wait_opc(t, U) ==
    /\ st[t] = "run"
    /\ wpc[t] = "opc"
    /\ Write(t, "*OPC", U)
    /\ tries' = [tries EXCEPT ![t] = TRIES]
    /\ vals' = [vals EXCEPT ![t] = <<>>]
    /\ wpc' = [wpc EXCEPT ![t] = "esr"]
    /\ UNCHANGED <<lock, dev, data, st, op, args, pc, loc, result, prev>>

\* wait(): while tries > 0: self._sendline("*ESR?")
wait_esr(t, U) ==
    /\ st[t] = "run"
    /\ wpc[t] = "esr"
    /\ tries[t] > 0
    /\ Write(t, "*ESR?", U)
    /\ wpc' = [wpc EXCEPT ![t] = "val"]
    /\ UNCHANGED <<lock, dev, data, st, op, args, pc, tries, vals, loc, result, prev>>

\* wait(): val = int(self._expect(r'(\d+)').group(1)), the checks of val, and
\* the test of tries after the loop
wait_val(t) ==
    /\ st[t] = "run"
    /\ wpc[t] = "val"
    /\ Read(t)
    /\ LET m == re_search(PAT_INT, NextLine) IN
       IF m = None
       THEN /\ Raise(t, E_ATTR)
            /\ UNCHANGED <<pc, tries, vals>>
       ELSE LET val == int(m[1])
                r == EsrStep(val, tries[t])
            IN /\ vals' = [vals EXCEPT ![t] = Append(@, val)]
               /\ tries' = [tries EXCEPT ![t] = r.tries]
               /\ IF r.exc # "none"
                  THEN Raise(t, r.exc) /\ UNCHANGED pc
                  ELSE IF ~r.brk /\ r.tries > 0
                  THEN /\ wpc' = [wpc EXCEPT ![t] = "esr"]
                       /\ UNCHANGED <<lock, st, pc, result>>
                  ELSE IF r.tries = 0
                  THEN Raise(t, E_TIMEOUT) /\ UNCHANGED pc
                  ELSE /\ wpc' = [wpc EXCEPT ![t] = "none"]
                       /\ lock' = Released(lock, 1)
                       /\ pc' = [pc EXCEPT ![t] = @ + 1]
                       /\ UNCHANGED <<st, result>>
    /\ UNCHANGED <<dev, data, op, args, loc, out, prev>>

\* Measurement.asDict: the caller is handed self.data as it is now
asDict(t) ==
    /\ Running(t)
    /\ Instr(t).k = "get"
    /\ loc' = [loc EXCEPT ![t] = [ret |-> data]]
    /\ pc' = [pc EXCEPT ![t] = @ + 1]
    /\ UNCHANGED <<lock, dev, rx, data, st, op, args, wpc, tries, vals, result, io, out, prev>>

\* the method body ends: the value is returned and _locked_gpp's `with` exits
leave(t) ==
    /\ st[t] = "run"
    /\ wpc[t] = "none"
    /\ pc[t] > Len(Body(t))
    /\ result' = [result EXCEPT ![t] = "ok"]
    /\ st' = [st EXCEPT ![t] = "done"]
    /\ lock' = Released(lock, IF op[t] \in LockedOps THEN 1 ELSE 0)
    /\ dev' = IF op[t] = "__init__" THEN [dev EXCEPT !.state = "connected"] ELSE dev
    /\ UNCHANGED <<rx, data, op, args, pc, wpc, tries, vals, loc, io, out, prev>>

\* the caller has the method's outcome and is free to call again
ret(t, U) ==
    /\ st[t] = "done"
    /\ prev' = IF U.outputs THEN [prev EXCEPT ![t] = [call |-> args[t], result |-> result[t]]]
                ELSE prev
    /\ st' = [st EXCEPT ![t] = "idle"]
    /\ op' = [op EXCEPT ![t] = "idle"]
    /\ args' = [args EXCEPT ![t] = IdleCall]
    /\ pc' = [pc EXCEPT ![t] = 0]
    /\ tries' = [tries EXCEPT ![t] = 0]
    /\ vals' = [vals EXCEPT ![t] = <<>>]
    /\ loc' = [loc EXCEPT ![t] = None]
    /\ result' = [result EXCEPT ![t] = "none"]
    /\ io' = [io EXCEPT ![t] = <<>>]
    /\ UNCHANGED <<lock, dev, rx, data, wpc, out>>

-----------------------------------------------------------------------------
(* The input universes: the calls made and the replies the instrument      *)
(* gives, per specification.                                               *)

Values == {0, 5}

Optional(S_) == {None} \cup {<<v>> : v \in S_}

Groups == {<<1, 1, 1>>, <<5, 2, 10>>}

SeqConfigs ==
    {[groups |-> g, start |-> 0, end |-> IF Len(g) = 0 THEN 0 ELSE Len(g) - 1, cycles |-> c] :
        g \in UNION {[1..k -> Groups] : k \in 0..MaxGroups},
        c \in {<<"bool", 1>>, <<"int", 1>>, <<"int", 3>>}}

CallsOf(chs, vs, conds, trigs, seqs) ==
         {[op |-> o, n |-> n] : o \in {"enable", "disable", "status", "is_load"}, n \in chs}
    \cup {[op |-> "set_source", n |-> n, voltage |-> v, current |-> c] :
             n \in chs, v \in vs, c \in vs}
    \cup {[op |-> "set_load", n |-> n, cv |-> cv, cc |-> cc, cr |-> cr] :
             n \in chs, cv \in Optional(vs), cc \in Optional(vs), cr \in Optional(vs)}
    \cup {[op |-> "monitor", n |-> n, current |-> c, voltage |-> v, power |-> p, trigger |-> g] :
             n \in chs, c \in conds, v \in conds, p \in conds, g \in trigs}
    \cup {[op |-> "sequence", n |-> n, seq |-> q, active |-> a] :
             n \in chs, q \in seqs, a \in BOOLEAN}
    \cup {[op |-> "sequence_enable", n |-> n, active |-> a] : n \in chs, a \in BOOLEAN}
    \cup {[op |-> o] : o \in {"alloff", "wait"}}
    \cup {Connect("sport")}

\* one thread, every argument combination
U_Seq ==
    [calls  |-> CallsOf(Channels, Values, {None, <<">", 1>>}, 0..7, SeqConfigs),
     esr    |-> {"0", "1", "32"},
     idn    |-> {IdnLine, "garbage"},
     meas   |-> MeasLines \cup {ShortMeasLine},
     modes  |-> Modes,
     floats |-> {"1.234"},
     flags  |-> {"ON", "OFF"},
     mute   |-> TRUE,
     outputs |-> FALSE]

\* wait() alone, every kind of status-register value
EsrValues == {0, 1, 4, 8, 16, 24, 32, 33, 128, 132, 133}

U_Wait ==
    [calls  |-> {[op |-> "wait"], Connect("sport")},
     esr    |-> {ToString(v) : v \in EsrValues},
     idn    |-> {IdnLine},
     meas   |-> {},
     modes  |-> {},
     floats |-> {},
     flags  |-> {},
     mute   |-> TRUE,
     outputs |-> FALSE]

\* concurrent threads, one argument combination per method
U_Conc ==
    [calls  |-> CallsOf({1}, {5}, {<<">", 1>>}, {1},
                        {[groups |-> <<>>, start |-> 0, end |-> 0, cycles |-> <<"int", 3>>]})
                \cup {[op |-> "update"]},
     esr    |-> {"1", "32"},
     idn    |-> {IdnLine},
     meas   |-> {Milli3(1234) \o "," \o Milli3(500) \o "," \o Milli3(617)},
     modes  |-> {"IND", "CV"},
     floats |-> {"1.234"},
     flags  |-> {"ON"},
     mute   |-> FALSE,
     outputs |-> FALSE]

\* one thread switching and reading outputs, an instrument that holds the
\* output flags and reports completion or a syntax error
U_Out ==
    [calls  |-> {[op |-> o, n |-> n] : o \in {"enable", "disable", "status"}, n \in Channels}
                \cup {[op |-> "alloff"], Connect("sport")},
     esr    |-> {"1", "32"},
     idn    |-> {IdnLine},
     meas   |-> {},
     modes  |-> {"IND"},
     floats |-> {"1.234"},
     flags  |-> {"OFF"},
     mute   |-> FALSE,
     outputs |-> TRUE]

\* a thread that updates the shared Measurement and a thread that reads it;
\* the instrument reports one or two channels and may stop replying
U_Read ==
    [calls  |-> {[op |-> "update"], [op |-> "asDict"], Connect("sport")},
     esr    |-> {},
     idn    |-> {IdnLine},
     meas   |-> {TripleStr(<<1234, 500, 617>>),
                 JoinSemi(<< <<5000, 1000, 5000>>, <<1234, 500, 617>> >>)},
     modes  |-> {"IND", "CV"},
     floats |-> {},
     flags  |-> {},
     mute   |-> TRUE,
     outputs |-> FALSE]

\* concurrent callers of a Device opened over TCP or over a serial port; the
\* instrument may stop replying
U_Live ==
    [calls  |-> {[op |-> "enable", n |-> 1], [op |-> "is_load", n |-> 1], [op |-> "wait"],
                 Connect("host"), Connect("sport")},
     esr    |-> {"0", "1"},
     idn    |-> {IdnLine},
     meas   |-> {},
     modes  |-> {"IND"},
     floats |-> {},
     flags  |-> {},
     mute   |-> TRUE,
     outputs |-> FALSE]

\* :MEAS? replies for one to MaxMeas channels, neighbouring channels with
\* different readings
AltStructs ==
    {[i \in 1..k |-> IF (i + b) % 2 = 0 THEN <<1234, 500, 617>> ELSE <<5000, 1000, 5000>>] :
        k \in 1..MaxMeas, b \in {0, 1}}

\* one thread that updates a Measurement; the instrument reports one to
\* MaxMeas channels
U_Upd ==
    [calls  |-> {[op |-> "update"], Connect("sport")},
     esr    |-> {},
     idn    |-> {IdnLine},
     meas   |-> {JoinSemi(m) : m \in AltStructs},
     modes  |-> {"IND", "CV"},
     floats |-> {},
     flags  |-> {},
     mute   |-> FALSE,
     outputs |-> FALSE]

-----------------------------------------------------------------------------
(* Specifications.                                                         *)

Init ==
    /\ lock = Unlocked
    /\ dev = [state |-> "new", s |-> "none", manufacturer |-> "", model |-> "", serial |-> "", version |-> ""]
    /\ rx = <<>>
    /\ data = None
    /\ st = [t \in Threads |-> "idle"]
    /\ op = [t \in Threads |-> "idle"]
    /\ args = [t \in Threads |-> IdleCall]
    /\ pc = [t \in Threads |-> 0]
    /\ wpc = [t \in Threads |-> "none"]
    /\ tries = [t \in Threads |-> 0]
    /\ vals = [t \in Threads |-> <<>>]
    /\ loc = [t \in Threads |-> None]
    /\ result = [t \in Threads |-> "none"]
    /\ io = [t \in Threads |-> <<>>]
    /\ out = [n \in Channels |-> FALSE]
    /\ prev = [t \in Threads |-> [call |-> IdleCall, result |-> "none"]]

Step(t, U) ==
    \/ \E c \in U.calls : call(t, c)
    \/ acquire(t)
    \/ _sendline(t, U)
    \/ _expect(t)
    \/ raise_(t)
    \/ wait_enter(t)
    \/ wait_opc(t, U)
    \/ wait_esr(t, U)
    \/ wait_val(t)
    \/ leave(t)
    \/ ret(t, U)

\* concurrent callers of one Device
Next == \E t \in Threads : Step(t, U_Conc)

Spec == Init /\ [][Next]_vars

\* one caller, all arguments
NextSeq == Step("t1", U_Seq)

SpecSeq == Init /\ [][NextSeq]_vars

\* one caller of wait(), after the bootstrap
NextWait ==
    \/ \E c \in U_Wait.calls : call("t1", c)
    \/ _sendline("t1", U_Wait)
    \/ _expect("t1")
    \/ wait_enter("t1")
    \/ wait_opc("t1", U_Wait)
    \/ wait_esr("t1", U_Wait)
    \/ wait_val("t1")
    \/ leave("t1")
    \/ ret("t1", U_Wait)

SpecWait == Init /\ [][NextWait]_vars

\* one caller of enable, disable, status and alloff
NextOut ==
    \/ \E c \in U_Out.calls : call("t1", c)
    \/ acquire("t1")
    \/ _sendline("t1", U_Out)
    \/ _expect("t1")
    \/ wait_enter("t1")
    \/ wait_opc("t1", U_Out)
    \/ wait_esr("t1", U_Out)
    \/ wait_val("t1")
    \/ leave("t1")
    \/ ret("t1", U_Out)

SpecOut == Init /\ [][NextOut]_vars

\* callers of Measurement.update and Measurement.asDict on one Measurement
NextRead ==
    \E t \in Threads :
        \/ \E c \in U_Read.calls : call(t, c)
        \/ acquire(t)
        \/ _sendline(t, U_Read)
        \/ _expect(t)
        \/ asDict(t)
        \/ leave(t)
        \/ ret(t, U_Read)

SpecRead == Init /\ [][NextRead]_vars

\* one caller of Measurement.update
NextUpd ==
    \/ \E c \in U_Upd.calls : call("t1", c)
    \/ acquire("t1")
    \/ _sendline("t1", U_Upd)
    \/ _expect("t1")
    \/ leave("t1")
    \/ ret("t1", U_Upd)

SpecUpd == Init /\ [][NextUpd]_vars

\* the steps of thread t inside a method that wait for no lock
Proceed(t) ==
    \/ _sendline(t, U_Live)
    \/ _expect(t)
    \/ wait_opc(t, U_Live)
    \/ wait_esr(t, U_Live)
    \/ wait_val(t)
    \/ leave(t)

NextLive ==
    \E t \in Threads :
        \/ \E c \in U_Live.calls : call(t, c)
        \/ acquire(t)
        \/ wait_enter(t)
        \/ Proceed(t)
        \/ ret(t, U_Live)

\* fair scheduling: a thread that can take a step inside its method
\* eventually takes it, and a thread that finds the lock free again and again
\* eventually gets it
SpecLive ==
    /\ Init /\ [][NextLive]_vars
    /\ \A t \in Threads :
          WF_vars(Proceed(t)) /\ SF_vars(acquire(t)) /\ SF_vars(wait_enter(t))

-----------------------------------------------------------------------------
(* Vocabulary of the properties.                                           *)

Last(s) == s[Len(s)]

Range(s) == {s[i] : i \in 1..Len(s)}

IsWrite(e) == e.d = "w"

\* the lines thread t's current method has written, in order
Sent(t) ==
    LET w == SelectSeq(io[t], IsWrite) IN [i \in 1..Len(w) |-> w[i].l]

\* the number of times line l occurs in the sequence s
RECURSIVE Count(_, _)
Count(s, l) ==
    IF s = <<>> THEN 0 ELSE (IF Head(s) = l THEN 1 ELSE 0) + Count(Tail(s), l)

Done(t) == st[t] = "done"

\* status-register values: a fatal bit (0x20, 0x10, 0x08); operation complete
\* (0x01) without a fatal bit
Fatal(v) == Bit(v, 32) \/ Bit(v, 16) \/ Bit(v, 8)

Good(v) == Bit(v, 1) /\ ~Fatal(v)

\* the wait() of thread t's current method read a status value that ended it
\* with success
WaitSucceeded(t) == vals[t] # <<>> /\ Good(Last(vals[t]))

-----------------------------------------------------------------------------
(* C1.  The composite operations are mutually exclusive on the transport.  *)

C1Ops == {"status", "set_source", "set_load", "monitor", "sequence", "enable",
          "disable", "is_load", "update", "wait"}

\* thread t has made the first transport write of its operation and has not
\* yet made its last transport access
InExchange(t) ==
    /\ op[t] \in C1Ops
    /\ st[t] = "run"
    /\ io[t] # <<>>
    /\ (wpc[t] # "none" \/ pc[t] <= Len(Body(t)))

\* C1: while one of status, set_source, set_load, monitor, sequence, enable,
\* disable, is_load, update and wait is between its first and its last
\* transport access, the calling thread holds the Device lock and no other
\* thread is inside the exchange of another of these operations: their lines
\* are never interleaved.
C1_CompositeAtomic ==
    \A t \in Threads :
        InExchange(t) =>
            /\ lock.owner = t
            /\ \A u \in Threads \ {t} : ~InExchange(u)

\* one thread is inside its exchange while the other waits for the lock
C1_Contended ==
    \E t, u \in Threads :
        /\ t # u
        /\ InExchange(t) /\ op[t] = "status" /\ Len(io[t]) > 2
        /\ op[u] = "set_source" /\ st[u] = "acquire"

-----------------------------------------------------------------------------
(* C2.  Every transport access is made under the lock.                     *)

Wrote(t) == Len(io'[t]) > Len(io[t]) /\ Last(io'[t]).d = "w"

\* thread u has sent a query and not yet read its reply
AwaitingReply(u) ==
    /\ st[u] = "run"
    /\ \/ wpc[u] = "val"
       \/ (wpc[u] = "none" /\ pc[u] <= Len(Body(u)) /\ Instr(u).k = "expect")

\* C2: every line a thread writes to the transport of the connected Device
\* (sequence_enable and alloff included) is written while that thread holds
\* the lock, and never while another thread is between the send and the
\* expect of a query.
C2_EveryAccessLocked ==
    [][\A t \in Threads :
          (Wrote(t) /\ dev.state = "connected") =>
              /\ lock.owner = t
              /\ \A u \in Threads \ {t} : ~AwaitingReply(u)]_vars

-----------------------------------------------------------------------------
(* C3, C4, C5.  wait().                                                    *)

\* the transport writes of a wait() that polled k times
WaitWrites(k) == <<"*OPC">> \o [i \in 1..k |-> "*ESR?"]

\* the reply to every *ESR? sent so far was a status value
AllParsed(t) == Count(Sent(t), "*ESR?") = Len(vals[t]) + (IF wpc[t] = "val" THEN 1 ELSE 0)

\* C3: a wait() whose status replies never carry bit 0x01, 0x08, 0x10 or 0x20
\* sends *OPC once, *ESR? exactly 5 times and fails with the Timeout error;
\* no wait() sends a sixth *ESR?.
C3_TimeoutAfterFive ==
    \A t \in Threads :
        op[t] = "wait" =>
            /\ Count(Sent(t), "*ESR?") <= 5
            /\ Count(Sent(t), "*OPC") <= 1
            /\ (Done(t) /\ AllParsed(t)
                  /\ \A i \in 1..Len(vals[t]) : ~Fatal(vals[t][i]) /\ ~Bit(vals[t][i], 1))
               => /\ Sent(t) = WaitWrites(5)
                  /\ result[t] = E_TIMEOUT

\* five replies without a deciding bit, among them the non-fatal 0x80 and 0x04
C3_FivePolls ==
    /\ op["t1"] = "wait" /\ Done("t1")
    /\ vals["t1"] = <<0, 132, 4, 128, 0>>
    /\ result["t1"] = E_TIMEOUT

\* the error of the highest-priority fatal bit of v
FatalError(v) ==
    IF Bit(v, 32) THEN E_SYNTAX ELSE IF Bit(v, 16) THEN E_EXEC ELSE E_DEVICE

\* C4: the first status reply with bit 0x20, 0x10 or 0x08 ends wait() at once
\* with CommandSyntax, Execution or DeviceFault, in that priority, also when
\* bit 0x01 is set; no *ESR? is sent after that reply.
C4_FatalAbortsAtOnce ==
    \A t \in Threads :
        op[t] = "wait" =>
            \A i \in 1..Len(vals[t]) :
                Fatal(vals[t][i]) =>
                    /\ i = Len(vals[t])
                    /\ Done(t)
                    /\ result[t] = FatalError(vals[t][i])
                    /\ Sent(t) = WaitWrites(i)

\* 0x18 (execution and device fault together) on the second poll, with
\* attempts left
C4_FatalSecondPoll ==
    /\ op["t1"] = "wait" /\ Done("t1")
    /\ vals["t1"] = <<128, 24>>
    /\ result["t1"] = E_EXEC

\* C5: wait() returns successfully exactly when, within its first 5 status
\* replies, one with bit 0x01 and no fatal bit arrives before any reply with
\* a fatal bit; bits 0x80 and 0x04 alone never fail it.
C5_SuccessIff ==
    \A t \in Threads :
        (op[t] = "wait" /\ Done(t)) =>
            (result[t] = "ok"
               <=> \E i \in 1..Len(vals[t]) :
                      /\ i <= 5
                      /\ Good(vals[t][i])
                      /\ \A j \in 1..(i - 1) : ~Fatal(vals[t][j]))

\* success on the fifth reply, which also carries 0x80 and 0x04
C5_FifthReply ==
    /\ op["t1"] = "wait" /\ Done("t1")
    /\ Len(vals["t1"]) = 5 /\ vals["t1"][5] = 133 /\ vals["t1"][1] = 132
    /\ result["t1"] = "ok"

-----------------------------------------------------------------------------
(* C6.  State-changing commands and wait().                                *)

Queries == {"*ESR?", "*IDN?", ":MEAS?"} \cup ModeQueries \cup FloatQueries \cup FlagQueries

\* a command that changes the instrument: neither a query nor *OPC
StateChanging(l) == l \notin Queries /\ l # "*OPC"

\* C6 as stated: every state-changing command written is followed by the *OPC
\* of a wait() before the next command is written, and no operation ends with
\* a state-changing command that has not been waited on.
C6_WaitAfterEveryCommand ==
    \A t \in Threads :
        LET s == Sent(t) IN
        \A i \in 1..Len(s) :
            StateChanging(s[i]) =>
                IF i < Len(s) THEN s[i + 1] = "*OPC" ELSE ~Done(t)

\* the state-changing commands of s with no *OPC after them
Unwaited(s) ==
    {i \in 1..Len(s) : StateChanging(s[i]) /\ \A k \in (i + 1)..Len(s) : s[k] # "*OPC"}

\* every state-changing command before position j has an *OPC between it and j
WaitedBefore(s, j) ==
    \A i \in 1..(j - 1) :
        StateChanging(s[i]) => \E k \in (i + 1)..(j - 1) : s[k] = "*OPC"

\* C6, amended: in enable, disable, set_source, set_load, monitor and sequence
\* every state-changing command is followed by a wait() (*OPC, then *ESR?
\* polling) before the operation's next query and before the operation ends,
\* except the display reset that ends monitor and sequence; the commands
\* before one wait() are written back to back.  sequence_enable, alloff and
\* the bootstrap write their commands with no wait() at all.
C6_WaitBeforeQueryOrEnd ==
    \A t \in Threads :
        LET s == Sent(t) IN
        /\ op[t] \in {"enable", "disable", "set_source", "set_load", "monitor", "sequence"}
              => \A j \in 1..Len(s) : s[j] \in Queries => WaitedBefore(s, j)
        /\ (op[t] \in {"enable", "disable", "set_source", "set_load"} /\ Done(t))
              => Unwaited(s) = {}
        /\ (op[t] \in {"monitor", "sequence"} /\ Done(t))
              => IF result[t] = "ok"
                 THEN Unwaited(s) = {Len(s)} /\ Last(s) = ":DISP:TYPE 1"
                 ELSE Unwaited(s) = {}
        /\ (op[t] \in {"sequence_enable", "alloff"} /\ Done(t))
              => Len(s) = 1 /\ Unwaited(s) = {1}
        /\ (op[t] = "__init__" /\ Done(t) /\ result[t] = "ok")
              => Unwaited(s) = {2, 3, 4} /\ Len(s) = 4

\* set_source on channel 1 has written four commands, waited once and
\* verified the mode
C6_SourceWaited ==
    \E t \in Threads :
        /\ op[t] = "set_source" /\ args[t].n = 1 /\ Done(t) /\ result[t] = "ok"
        /\ Count(Sent(t), "*OPC") = 1
        /\ Len(Sent(t)) > 6

-----------------------------------------------------------------------------
(* C7, C8.  set_load.                                                      *)

\* how many of cv, cc, cr the call supplies
Supplied(c) ==
    (IF c.cv # None THEN 1 ELSE 0) + (IF c.cc # None THEN 1 ELSE 0)
        + (IF c.cr # None THEN 1 ELSE 0)

\* C7: set_load with none, two or three of cv, cc, cr supplied (a supplied 0
\* included) fails with InvalidArgument (ValueError), writes no line to the
\* transport and reads none, and leaves the lock released.
C7_InvalidLoadArgs ==
    \A t \in Threads :
        (op[t] = "set_load" /\ Supplied(args[t]) # 1) =>
            /\ io[t] = <<>>
            /\ result[t] \in {"none", E_VALUE}
            /\ Done(t) => (result[t] = E_VALUE /\ lock.owner # t /\ rx = <<>>)

\* cv = 0 and cc = 0 supplied together
C7_TwoZeros ==
    \E t \in Threads :
        /\ op[t] = "set_load" /\ Done(t)
        /\ args[t].cv = <<0>> /\ args[t].cc = <<0>> /\ args[t].cr = None
        /\ result[t] = E_VALUE

Requested(c) == IF c.cv # None THEN "CV" ELSE IF c.cc # None THEN "CC" ELSE "CR"

SetpointCmd(c) ==
    IF c.cv # None THEN ":SOUR" \o Ch(c.n) \o ":VOLT " \o FloatStr(c.cv[1])
    ELSE IF c.cc # None THEN ":SOUR" \o Ch(c.n) \o ":CURR " \o FloatStr(c.cc[1])
    ELSE ":LOAD" \o Ch(c.n) \o ":RES " \o FloatStr(c.cr[1])

EnableCmd(c) == ":LOAD" \o Ch(c.n) \o ":" \o Requested(c) \o " on"

ModeQuery(c) == ":MODE" \o Ch(c.n) \o "?"

\* s starts with as much of e as its length allows
StartsWith(s, e) == \A i \in 1..Len(e) : i <= Len(s) => s[i] = e[i]

\* the mode the instrument reported to the operation's last read
Reported(t) == Last(io[t]).l

\* C8: set_load with exactly one of cv, cc, cr writes the setpoint command,
\* the matching sub-mode enable, then runs wait(); it sends one mode query if
\* wait() succeeded and none if it failed; it succeeds exactly when the
\* reported mode is the requested one and fails with ModeTransitionError
\* (the RuntimeError of the failed switch) on any other reported mode.
C8_LoadModeVerified ==
    \A t \in Threads :
        (op[t] = "set_load" /\ Supplied(args[t]) = 1) =>
            LET s == Sent(t)
                c == args[t]
            IN /\ StartsWith(s, <<SetpointCmd(c), EnableCmd(c), "*OPC">>)
               /\ Count(s, ModeQuery(c)) <= 1
               /\ Count(s, ModeQuery(c)) = 1 => (WaitSucceeded(t) /\ Last(s) = ModeQuery(c))
               /\ Done(t) =>
                    /\ Len(s) >= 3
                    /\ Count(s, ModeQuery(c)) = 1 <=> WaitSucceeded(t)
                    /\ result[t] = "ok" <=> (WaitSucceeded(t) /\ Reported(t) = Requested(c))
                    /\ (WaitSucceeded(t) /\ Reported(t) \notin {"", Requested(c)})
                          => result[t] = E_LOAD(Requested(c))

\* cr = 0 requested, the instrument reports CC
C8_WrongMode ==
    \E t \in Threads :
        /\ op[t] = "set_load" /\ Done(t)
        /\ args[t].cr = <<0>> /\ args[t].cv = None /\ args[t].cc = None
        /\ WaitSucceeded(t) /\ Reported(t) = "CC"
        /\ result[t] = E_LOAD("CR")

-----------------------------------------------------------------------------
(* C9.  set_source.                                                        *)

SourceCmds(c) ==
       << "TRACK0" >>
    \o (IF c.n \in {1, 2} THEN << ":LOAD" \o Ch(c.n) \o ":CC OFF" >> ELSE <<>>)
    \o << ":SOUR" \o Ch(c.n) \o ":CURR " \o FloatStr(c.current),
          ":SOUR" \o Ch(c.n) \o ":VOLT " \o FloatStr(c.voltage),
          "*OPC" >>

\* C9: set_source writes tracking-off, (channels 1 and 2) load-CC-off, the
\* current limit, the voltage, then waits.  On channels 1 and 2 a successful
\* wait() is followed by exactly one mode query, and the operation succeeds
\* for "IND" and fails with ModeTransitionError for every other reported
\* mode.  On channels 3 and 4 neither load-CC-off nor a mode query is sent
\* and the operation succeeds whenever wait() succeeds.
C9_SourceModeVerified ==
    \A t \in Threads :
        op[t] = "set_source" =>
            LET s == Sent(t)
                c == args[t]
            IN /\ StartsWith(s, SourceCmds(c))
               /\ Done(t) => Len(s) >= Len(SourceCmds(c))
               /\ IF c.n \in {1, 2}
                  THEN /\ Count(s, ModeQuery(c)) <= 1
                       /\ Count(s, ModeQuery(c)) = 1
                             => (WaitSucceeded(t) /\ Last(s) = ModeQuery(c))
                       /\ Done(t) =>
                            /\ Count(s, ModeQuery(c)) = 1 <=> WaitSucceeded(t)
                            /\ result[t] = "ok" <=> (WaitSucceeded(t) /\ Reported(t) = "IND")
                            /\ (WaitSucceeded(t) /\ Reported(t) \notin {"", "IND"})
                                  => result[t] = E_SOURCE
                  ELSE /\ \A i \in 1..Len(s) :
                              s[i] \notin ModeQueries
                                          \cup {":LOAD" \o Ch(n) \o ":CC OFF" : n \in Channels}
                       /\ Done(t) => (result[t] = "ok" <=> WaitSucceeded(t))

\* channel 2, the instrument reports CR after the wait
C9_NotIndependent ==
    \E t \in Threads :
        /\ op[t] = "set_source" /\ Done(t) /\ args[t].n = 2
        /\ WaitSucceeded(t) /\ Reported(t) = "CR"
        /\ result[t] = E_SOURCE

-----------------------------------------------------------------------------
(* C10.  monitor: the condition and stop-trigger writes.                   *)

Comparators == {">", "<", "="}

CondNone(n) == [curr  |-> ":MONI" \o Ch(n) \o ":CURR:COND NONE,NONE",
                volt  |-> ":MONI" \o Ch(n) \o ":VOLT:COND NONE,NONE",
                power |-> ":MONI" \o Ch(n) \o ":POWER:COND NONE"]

CondOf(n, what, cmp) ==
    CASE what = "curr"  -> ":MONI" \o Ch(n) \o ":CURR:COND " \o cmp \o "C,AND"
      [] what = "volt"  -> ":MONI" \o Ch(n) \o ":VOLT:COND " \o cmp \o "V,AND"
      [] what = "power" -> ":MONI" \o Ch(n) \o ":POWER:COND " \o cmp \o "P"

\* every condition-set command of channel n
CondLines(n) ==
    {CondNone(n)[w] : w \in {"curr", "volt", "power"}}
        \cup {CondOf(n, w, cmp) : w \in {"curr", "volt", "power"}, cmp \in Comparators}

\* every stop-trigger command of channel n
StopLines(n) ==
    {":MONI" \o Ch(n) \o ":STOP " \o k \o "," \o v :
        k \in {"BEEPER", "OUTOFF", "ALARM"}, v \in {"ON", "OFF"}}

\* the condition command monitor() owes for an argument: its comparator or NONE
CondDue(n, what, a) == IF a = None THEN CondNone(n)[what] ELSE CondOf(n, what, a[1])

\* the four stop-trigger commands monitor() owes for a mask
StopDue(n, mask) ==
    << ":MONI" \o Ch(n) \o ":STOP BEEPER,ON",
       ":MONI" \o Ch(n) \o ":STOP OUTOFF," \o (IF mask \in {1, 3, 5, 7} THEN "ON" ELSE "OFF"),
       ":MONI" \o Ch(n) \o ":STOP ALARM,"  \o (IF mask \in {2, 3, 6, 7} THEN "ON" ELSE "OFF"),
       ":MONI" \o Ch(n) \o ":STOP BEEPER," \o (IF mask \in {4, 5, 6, 7} THEN "ON" ELSE "OFF") >>

\* C10: whatever thresholds are supplied and whatever the mask (0..7), one
\* monitor() writes exactly three COND commands, one each for current,
\* voltage and power (the supplied comparator or NONE), and exactly the four
\* STOP commands BEEPER ON, OUTOFF, ALARM, BEEPER in that order, the last
\* three ON exactly for the mask bits 1, 2, 4; all before its first wait().
C10_MonitorWrites ==
    \A t \in Threads :
        op[t] = "monitor" =>
            LET s == Sent(t)
                c == args[t]
                IsCond(l) == l \in CondLines(c.n)
                IsStop(l) == l \in StopLines(c.n)
                conds == SelectSeq(s, IsCond)
                stops == SelectSeq(s, IsStop)
            IN /\ Len(conds) <= 3
               /\ Len(stops) <= 4
               /\ Done(t) => "*OPC" \in Range(s)
               /\ "*OPC" \in Range(s) =>
                    /\ Len(conds) = 3
                    /\ Range(conds) = {CondDue(c.n, "curr", c.current),
                                       CondDue(c.n, "volt", c.voltage),
                                       CondDue(c.n, "power", c.power)}
                    /\ stops = StopDue(c.n, c.trigger)

\* current and power supplied, voltage absent, mask 5
C10_MixedThresholds ==
    \E t \in Threads :
        /\ op[t] = "monitor" /\ Done(t) /\ result[t] = "ok"
        /\ args[t].current # None /\ args[t].voltage = None /\ args[t].power # None
        /\ args[t].trigger = 5

-----------------------------------------------------------------------------
(* C11.  monitor: when monitoring is armed.                                *)

MoniOff(n) == ":MONI" \o Ch(n) \o ":STAT OFF"

MoniOn(n) == ":MONI" \o Ch(n) \o ":STAT ON"

\* the arming condition of a monitor call c: a non-zero mask and a threshold
ArmDue(c) ==
    c.trigger # 0 /\ (c.current # None \/ c.voltage # None \/ c.power # None)

\* the positions of line l among thread t's reads and writes
WrittenAt(t, l) == {i \in 1..Len(io[t]) : io[t][i].d = "w" /\ io[t][i].l = l}

\* the read at position i of thread t's log is a status value that ends a
\* wait() with success
GoodRead(t, i) ==
    /\ i \in 1..Len(io[t])
    /\ io[t][i].d = "r"
    /\ io[t][i].l \in IntLines
    /\ Good(int(io[t][i].l))

\* C11 as stated: every monitor() call that has ended wrote STAT ON exactly
\* if the mask is non-zero and a threshold was supplied.
C11_ArmedIffRequested ==
    \A t \in Threads :
        op[t] = "monitor" /\ Done(t) =>
            (MoniOn(args[t].n) \in Range(Sent(t)) <=> ArmDue(args[t]))

\* C11: monitor() writes STAT OFF first.  It writes STAT ON at most once and
\* only if the mask is non-zero and a threshold was supplied, directly after
\* a wait() that succeeded and that followed the three condition and the four
\* stop-trigger writes.  A call that has ended wrote STAT ON exactly if that
\* condition holds and its first wait() succeeded: a call whose first wait()
\* failed leaves monitoring off.
C11_ArmedAfterWait ==
    \A t \in Threads :
        op[t] = "monitor" =>
            LET c == args[t]
                s == Sent(t)
                on == WrittenAt(t, MoniOn(c.n))
                IsCond(l) == l \in CondLines(c.n)
                IsStop(l) == l \in StopLines(c.n)
            IN /\ s # <<>> => s[1] = MoniOff(c.n)
               /\ Count(s, MoniOff(c.n)) <= 1
               /\ Cardinality(on) <= 1
               /\ \A i \in on :
                    /\ ArmDue(c)
                    /\ GoodRead(t, i - 1)
                    /\ LET before == SelectSeq([j \in 1..(i - 1) |-> io[t][j]], IsWrite)
                           lines == [j \in 1..Len(before) |-> before[j].l]
                       IN /\ Len(SelectSeq(lines, IsCond)) = 3
                          /\ Len(SelectSeq(lines, IsStop)) = 4
                          /\ Count(lines, "*OPC") = 1
                          /\ lines[1] = MoniOff(c.n)
               /\ Done(t) =>
                    (on # {} <=> ArmDue(c) /\ \E i \in 1..Len(io[t]) : GoodRead(t, i))

\* a monitor() call with mask 2 and a voltage threshold has armed monitoring
\* and returned
C11_Armed ==
    \E t \in Threads :
        /\ op[t] = "monitor" /\ Done(t) /\ result[t] = "ok"
        /\ args[t].trigger = 2 /\ args[t].voltage # None /\ args[t].current = None
        /\ MoniOn(args[t].n) \in Range(Sent(t))

-----------------------------------------------------------------------------
(* C12.  enable and disable, as status reports them.                       *)

Switches == {"enable", "disable"}

\* thread t's status() has returned, and the call before it was c
StatusAfter(t, c) ==
    /\ op[t] = "status" /\ Done(t) /\ result[t] = "ok"
    /\ prev[t] = [call |-> c, result |-> "ok"]

\* status().enabled after a successful enable() or disable() of the same
\* channel; status() reports the flag the instrument holds
EnabledAsSwitched ==
    \A t \in Threads :
        /\ \A n \in Channels :
              /\ StatusAfter(t, [op |-> "enable", n |-> n]) /\ args[t].n = n
                    => loc[t].enabled = TRUE
              /\ StatusAfter(t, [op |-> "disable", n |-> n]) /\ args[t].n = n
                    => loc[t].enabled = FALSE
        /\ op[t] = "status" /\ Done(t) /\ result[t] = "ok"
              => loc[t].enabled = out[args[t].n]

\* a step taken while enable() or disable() of channel n runs leaves the
\* flag of every other channel as it was
OthersUntouched ==
    \A t \in Threads :
        op[t] \in Switches =>
            \A m \in Channels \ {args[t].n} : out'[m] = out[m]

\* C12: with an instrument that applies OUTP{n}:STAT ON/OFF to the flag of
\* channel n, for n in 1..4 and after any earlier calls, enable() then
\* status() of n gives enabled = true, disable() then status() gives
\* enabled = false, and enable/disable of n changes no other channel's flag.
C12_EnableDisableReported == []EnabledAsSwitched /\ [][OthersUntouched]_vars

\* channel 4 disabled and read back while channel 1 stays enabled
C12_Channel4Disabled ==
    \E t \in Threads :
        /\ StatusAfter(t, [op |-> "disable", n |-> 4])
        /\ args[t].n = 4
        /\ loc[t].enabled = FALSE
        /\ out[1]

-----------------------------------------------------------------------------
(* C13.  What a reader of the Measurement sees.                            *)

\* a snapshot in which every channel entry has its mode
Complete(d) == \A chn \in DOMAIN d : "mode" \in DOMAIN d[chn]

\* C13: whatever asDict() returns, at any point of a concurrent update() and
\* after an update() that failed, is a complete snapshot: every channel entry
\* carries its mode.
C13_ReaderSeesComplete ==
    \A t \in Threads :
        op[t] = "asDict" /\ Done(t) => Complete(loc[t].ret)

-----------------------------------------------------------------------------
(* C14.  A reply that does not match the expected pattern.                 *)

\* the error kind the interface names for a reply that cannot be parsed
E_MALFORMED == "ProtocolError(MalformedResponse)"

\* thread t's method has ended at an _expect whose line did not match: in the
\* method body, or in wait()'s poll
Unmatched(t) ==
    /\ Done(t) /\ result[t] # "ok"
    /\ io[t] # <<>> /\ Last(io[t]).d = "r"
    /\ pc[t] \in 1..Len(Body(t))
    /\ \/ Instr(t).k = "expect" /\ re_search(Instr(t).p, Last(io[t]).l) = None
       \/ Instr(t).k = "wait" /\ re_search(PAT_INT, Last(io[t]).l) = None

\* C14: an operation (wait, status, set_source, set_load, is_load, update, the
\* bootstrap) whose _expect read a line that does not match its pattern, the
\* empty line included, ends with ProtocolError(MalformedResponse), which the
\* bootstrap hands on wrapped.
C14_NoMatchIsMalformed ==
    \A t \in Threads :
        Unmatched(t) => result[t] \in {E_MALFORMED, E_GPP(E_MALFORMED)}

-----------------------------------------------------------------------------
(* C15.  sequence: the cycle count written.                                *)

CycleInfinite(n) == ":SEQU" \o Ch(n) \o ":CYCLE I"

CycleFinite(n, c) == ":SEQU" \o Ch(n) \o ":CYCLE N," \o ToString(c)

\* the cycle command owed to a configuration: the marker for True
\* ("infinite"), the finite form carrying c for a count c
CycleDue(n, cycles) ==
    IF cycles[1] = "bool" THEN CycleInfinite(n) ELSE CycleFinite(n, cycles[2])

\* C15: a sequence() call that has written its start index and end index has
\* written, between them, the infinite marker exactly if the configured
\* cycle count is "infinite", and otherwise the finite form carrying the
\* count, for the count 1 as well.
C15_InfiniteIffRequested ==
    \A t \in Threads :
        op[t] = "sequence" =>
            LET c == args[t]
                s == Sent(t)
                ends == ":SEQU" \o Ch(c.n) \o ":ENDS " \o ToString(c.seq.end)
            IN \A i \in 1..Len(s) : s[i] = ends => s[i - 1] = CycleDue(c.n, c.seq.cycles)

-----------------------------------------------------------------------------
(* C16.  sequence: the order of its commands and waits.                    *)

SeqOn(n) == ":SEQU" \o Ch(n) \o ":STAT ON"

DispReset == ":DISP:TYPE 1"

WaitLines == {"*OPC", "*ESR?"}

\* the configuration commands of a sequence() call c, the cycle command
\* being cyc
SeqConfigLines(c, cyc) ==
       << ":SEQU" \o Ch(c.n) \o ":STAT OFF",
          ":SEQU" \o Ch(c.n) \o ":GROUP " \o ToString(Len(c.seq.groups)) >>
    \o [i \in 1..Len(c.seq.groups) |->
          ":SEQU" \o Ch(c.n) \o ":PARA " \o ToString(i - 1) \o ","
              \o ToString(c.seq.groups[i][1]) \o "," \o ToString(c.seq.groups[i][2])
              \o "," \o ToString(c.seq.groups[i][3])]
    \o << ":SEQU" \o Ch(c.n) \o ":STAR " \o ToString(c.seq.start),
          cyc,
          ":SEQU" \o Ch(c.n) \o ":ENDS " \o ToString(c.seq.end) >>

IsPrefix(a, b) == Len(a) <= Len(b) /\ a = [i \in 1..Len(a) |-> b[i]]

\* the lines thread t wrote before position i of its log, wait()'s lines
\* and the others
LinesBefore(t, i) ==
    LET w == SelectSeq([j \in 1..(i - 1) |-> io[t][j]], IsWrite)
    IN [j \in 1..Len(w) |-> w[j].l]

NotWaitLine(l) == l \notin WaitLines

Commands(s) == SelectSeq(s, NotWaitLine)

GoodReads(t) == {i \in 1..Len(io[t]) : GoodRead(t, i)}

\* C16: sequence() writes STAT OFF, the group count, one PARA command per
\* group in list order, the start index, the cycle command and the end
\* index, and only then starts its first wait().  It writes STAT ON exactly
\* if active is true and the first wait() succeeded, directly after that
\* wait(), and a second wait() follows it.  The display reset is its last
\* line, written exactly if every wait() before it succeeded.
C16_SequenceOrder ==
    \A t \in Threads :
        op[t] = "sequence" =>
            LET c == args[t]
                s == Sent(t)
                waitsDue == IF c.active THEN 2 ELSE 1
            IN \E cyc \in {CycleInfinite(c.n), CycleFinite(c.n, c.seq.cycles[2])} :
                LET config == SeqConfigLines(c, cyc) IN
                /\ IsPrefix(Commands(s),
                            config \o When(c.active, << SeqOn(c.n) >>) \o << DispReset >>)
                /\ \A i \in WrittenAt(t, "*OPC") :
                      Commands(LinesBefore(t, i)) \in {config, config \o << SeqOn(c.n) >>}
                /\ \A i \in WrittenAt(t, SeqOn(c.n)) :
                      /\ c.active
                      /\ GoodRead(t, i - 1)
                      /\ Count(LinesBefore(t, i), "*OPC") = 1
                /\ \A i \in WrittenAt(t, DispReset) :
                      /\ GoodRead(t, i - 1)
                      /\ Count(LinesBefore(t, i), "*OPC") = waitsDue
                      /\ i = Len(io[t])
                /\ Done(t) =>
                      /\ WrittenAt(t, SeqOn(c.n)) # {} <=> c.active /\ GoodReads(t) # {}
                      /\ WrittenAt(t, SeqOn(c.n)) # {} => Count(s, "*OPC") = 2
                      /\ WrittenAt(t, DispReset) # {} <=> Cardinality(GoodReads(t)) = waitsDue
                      /\ WrittenAt(t, DispReset) # {} <=> result[t] = "ok"

\* two groups, armed, both waits succeeded
C16_TwoGroupsArmed ==
    \E t \in Threads :
        /\ op[t] = "sequence" /\ Done(t) /\ result[t] = "ok"
        /\ Len(args[t].seq.groups) = 2 /\ args[t].active
        /\ args[t].seq.groups[1] # args[t].seq.groups[2]
        /\ Last(Sent(t)) = DispReset

-----------------------------------------------------------------------------
(* C17.  Every operation ends, every lock waiter gets the lock.            *)

InCall(t) == st[t] \in {"acquire", "run"}

\* C17: under fair scheduling every operation that was called eventually
\* returns or fails, and every thread waiting for the lock eventually
\* acquires it, whether the Device was opened over TCP or over a serial port
\* and even if the instrument stops replying.
C17_EveryOperationEnds ==
    \A t \in Threads :
        /\ InCall(t) ~> Done(t)
        /\ st[t] = "acquire" ~> st[t] # "acquire"

\* the same for a Device opened over a serial port (read timeout set)
SerialOperationsEnd ==
    \A t \in Threads :
        /\ (dev.s = "serial" /\ InCall(t)) ~> Done(t)
        /\ (dev.s = "serial" /\ st[t] = "acquire") ~> st[t] # "acquire"

-----------------------------------------------------------------------------
(* C18.  The lock is released on every exit path.                          *)

Outside(t) == st[t] \in {"idle", "acquire", "done"}

\* C18: a thread that is not inside an operation (before the call, after a
\* normal return, after any error) holds the lock zero times, so the lock is
\* free whenever no operation is in progress; a thread inside a method
\* wrapped by _locked_gpp holds it once, and twice inside the method's
\* nested wait(), which therefore finds the lock held by its own thread.
C18_LockReleasedOnExit ==
    /\ lock.owner = "none" <=> lock.count = 0
    /\ \A t \in Threads :
          /\ Outside(t) => lock.owner # t
          /\ st[t] = "run" /\ op[t] \in LockedOps =>
                /\ lock.owner = t
                /\ lock.count = IF wpc[t] = "none" THEN 1 ELSE 2
          /\ st[t] = "run" /\ op[t] \notin LockedOps =>
                IF wpc[t] = "none" THEN lock.owner # t
                ELSE lock = [owner |-> t, count |-> 1]
    /\ (\A t \in Threads : Outside(t)) => lock = Unlocked

\* a locked operation ended by the timeout of its nested wait()
C18_NestedTimeout ==
    \E t \in Threads :
        /\ op[t] \in LockedOps /\ Done(t) /\ result[t] = E_TIMEOUT
        /\ lock = Unlocked

-----------------------------------------------------------------------------
(* C19.  update: the queries sent and the snapshot built.                  *)

\* the queries of an update() that found k channels
UpdateQueries(k) == << ":MEAS?" >> \o [i \in 1..k |-> ":MODE" \o Ch(i) \o "?"]

\* the lines thread t's current method has read, in order
Received(t) ==
    LET IsRead(e) == e.d = "r"
        r == SelectSeq(io[t], IsRead)
    IN [i \in 1..Len(r) |-> r[i].l]

\* C19: an update() whose aggregate reply carries k triples (k in
\* 1..MaxMeas) writes :MEAS? once and then :MODE1? .. :MODEk? in ascending
\* order, nothing else; when it has returned, the snapshot has exactly the
\* keys 1..k, and entry i holds the i-th triple's voltage, current and power,
\* channel = i and the reply to the i-th mode query.
C19_UpdateSnapshot ==
    \A t \in Threads :
        op[t] = "update" =>
            /\ Sent(t) # <<>> => Sent(t)[1] = ":MEAS?"
            /\ Len(Received(t)) >= 1 =>
                  \E m \in MeasStructs :
                      /\ JoinSemi(m) = Received(t)[1]
                      /\ IsPrefix(Sent(t), UpdateQueries(Len(m)))
                      /\ Done(t) /\ result[t] = "ok" =>
                            /\ Sent(t) = UpdateQueries(Len(m))
                            /\ Len(io[t]) = 2 * (Len(m) + 1)
                            /\ DOMAIN data = 1..Len(m)
                            /\ \A i \in 1..Len(m) :
                                  data[i] = [voltage |-> m[i][1], current |-> m[i][2],
                                             power |-> m[i][3], channel |-> i,
                                             mode |-> Received(t)[i + 1]]
            /\ Done(t) /\ result[t] = "ok" => Len(Received(t)) >= 1

\* the reply "1.234,0.500,0.617;5.000,1.000,5.000" with the modes CV and IND
C19_TwoChannels ==
    \E t \in Threads :
        /\ op[t] = "update" /\ Done(t) /\ result[t] = "ok"
        /\ Received(t) = << "1.234,0.500,0.617;5.000,1.000,5.000", "CV", "IND" >>
        /\ data = << [voltage |-> 1234, current |-> 500, power |-> 617, channel |-> 1,
                      mode |-> "CV"],
                     [voltage |-> 5000, current |-> 1000, power |-> 5000, channel |-> 2,
                      mode |-> "IND"] >>

\* four channels reported
C19_FourChannels ==
    \E t \in Threads :
        /\ op[t] = "update" /\ Done(t) /\ result[t] = "ok"
        /\ Sent(t) = << ":MEAS?", ":MODE1?", ":MODE2?", ":MODE3?", ":MODE4?" >>
        /\ DOMAIN data = 1..4
        /\ data[1].mode # data[4].mode /\ data[1].voltage # data[4].voltage

-----------------------------------------------------------------------------
(* C20.  Every query is read exactly once; nothing else is read.           *)

IsQueryWrite(e) == e.d = "w" /\ e.l \in Queries

\* the threads whose last transport access is a query not yet read
Asking == {t \in Threads : io[t] # <<>> /\ IsQueryWrite(Last(io[t]))}

\* C20: in every operation each read directly follows the write of a query
\* by the same caller and takes a reply to that query, a query is never
\* followed by another write, and no operation ends with a query unread.
\* With an instrument that answers each query with exactly one line, the
\* unread lines are the replies to the queries being asked, so none is left
\* when an operation has ended, by return or by error, and none when no
\* operation is running.
C20_RepliesAllRead ==
    /\ \A t \in Threads :
          LET s == io[t] IN
          /\ \A i \in 1..Len(s) :
                /\ s[i].d = "r" =>
                      /\ i > 1
                      /\ IsQueryWrite(s[i - 1])
                      /\ s[i].l \in Replies(s[i - 1].l, U_Conc)
                /\ s[i].d = "w" /\ i > 1 => ~IsQueryWrite(s[i - 1])
          /\ Done(t) => t \notin Asking
    /\ Len(rx) = Cardinality(Asking)
    /\ (\A t \in Threads : ~AwaitingReply(t)) => rx = <<>>

\* a monitor() ended by a fatal status in its wait(), nothing left unread
C20_ErrorNothingUnread ==
    \E t \in Threads :
        /\ op[t] = "monitor" /\ Done(t) /\ result[t] = E_SYNTAX
        /\ Len(SelectSeq(io[t], IsQueryWrite)) = 1
        /\ rx = <<>>

====
